---- MODULE Spec2Model ----
(***************************************************************************)
(* Client-side entity synchronization of space-shooter                     *)
(* (src/src/game/scenes/game.go).                                          *)
(*                                                                         *)
(* Two goroutines share the ECS world once NewGameScene has run: the host  *)
(* goroutine, which calls Update (movePlayer) and Draw (drawEnvironment),  *)
(* and the goroutine started by `go scene.receiveServerUpdates()`.  The    *)
(* source takes no lock, so every access to the world is its own step and  *)
(* the two goroutines interleave between any two of them.  A PositionData  *)
(* is three float64 words: a struct copy into the world is not atomic, so  *)
(* it is modelled one field at a time, in any order.                       *)
(*                                                                         *)
(* The Sprite component and the asset manager belong to rendering and are  *)
(* left out; PlayerData keeps its Id (Name is a constant, Health unused).  *)
(***************************************************************************)
EXTENDS Integers, Sequences, FiniteSets, TLC

\* ---------------------------------------------------------------- bounds
MaxPlayerId == 2
MaxCoord == 1
MaxAngle == 1
MaxEnemies == 1
MaxEntities == 2

\* ------------------------------------------------------------ data types
PlayerIds == 1..MaxPlayerId

Fields == {"X", "Y", "Angle"}

PositionData == [X : 0..MaxCoord, Y : 0..MaxCoord, Angle : 0..MaxAngle]

\* Go zero values: what `var v T` and a freshly created component hold.
ZeroPosition == [X |-> 0, Y |-> 0, Angle |-> 0]

ZeroPlayerPosition == [PlayerId |-> 0, Position |-> ZeroPosition]

ZeroEstablishConnection ==
    [PlayerId |-> 0, Position |-> ZeroPosition, EnemyData |-> <<>>]

\* An entity of the world: the Id of its Player component and its Position
\* component.
Entity(id, position) == [Id |-> id, Position |-> position]

\* ------------------------------------------------------------ wire format
MessageTypes == {"EstablishConnection", "UpdatePosition", "PlayerConnected", "Unknown"}

\* A payload is msgpack bytes.  `valid` says whether the bytes are a msgpack
\* map; a map carries named fields, and a field a message shape does not
\* have is absent (EnemyData = <<>>).
GarbagePayload ==
    [valid |-> FALSE, PlayerId |-> 0, Position |-> ZeroPosition, EnemyData |-> <<>>]

\* The positions the server sends: two that differ in every field.
SentPositions == {[X |-> 1, Y |-> 0, Angle |-> 1], [X |-> 0, Y |-> 1, Angle |-> 0]}

EnemyLists ==
    UNION {[1..n -> [PlayerId : PlayerIds, Position : SentPositions]] : n \in 0..MaxEnemies}

PlayerPayloads ==
    [valid : {TRUE}, PlayerId : PlayerIds, Position : SentPositions, EnemyData : {<<>>}]

\* The handshake the server sends: the roster names the remote participants,
\* each once and none under the id assigned to this client.
EstablishPayloads ==
    {p \in [valid : {TRUE}, PlayerId : PlayerIds, Position : SentPositions,
            EnemyData : EnemyLists] :
        \A i, j \in 1..Len(p.EnemyData) :
            /\ p.EnemyData[i].PlayerId # p.PlayerId
            /\ i # j => p.EnemyData[i].PlayerId # p.EnemyData[j].PlayerId}

\* What the closure updatePosition of movePlayer writes (lines 132-141).
UpdateMessage(id, position) ==
    [MessageType |-> "UpdatePosition", PlayerId |-> id, Position |-> position]

\* Nothing written.
ZeroUpdateMessage == [MessageType |-> "", PlayerId |-> 0, Position |-> ZeroPosition]

ZeroMessage == [MessageType |-> "", Payload |-> GarbagePayload]

\* msgpack.Unmarshal into a struct: an error when the bytes are no map,
\* otherwise the struct's fields are filled by name, fields of the map the
\* struct does not have are skipped and fields the map lacks stay zero.
UnmarshalEstablishConnection(payload) ==
    IF payload.valid
    THEN [err |-> FALSE,
          value |-> [PlayerId |-> payload.PlayerId, Position |-> payload.Position,
                     EnemyData |-> payload.EnemyData]]
    ELSE [err |-> TRUE, value |-> ZeroEstablishConnection]

UnmarshalPlayerPosition(payload) ==
    IF payload.valid
    THEN [err |-> FALSE,
          value |-> [PlayerId |-> payload.PlayerId, Position |-> payload.Position]]
    ELSE [err |-> TRUE, value |-> ZeroPlayerPosition]

\* ------------------------------------------------------------------ state
VARIABLES
    phase,                \* where NewGameScene is, then "running" or "fatal"
    argPlayerId,          \* NewGameScene: its parameter playerId
    message,              \* NewGameScene: the BaseMessage received
    consumed,             \* envelopes NewGameScene has taken from the connection
    establishConnection,  \* NewGameScene: the decoded handshake
    playerId,             \* GameScene.playerId
    world,                \* the entities of ecs.World, in creation order
    pcIn,                 \* receiveServerUpdates: position of the goroutine
    updatePosition,       \* receiveServerUpdates: decoded UpdatePosition
    playerConnected,      \* receiveServerUpdates: decoded PlayerConnected
    entry,                \* receiveServerUpdates: entity being written (0 = nil)
    pending,              \* fields of the struct copy not yet written
    inResult,             \* how the last iteration of the receive loop ended
    pcOut,                \* host goroutine: position inside Update / Draw
    pressed,              \* keys ebiten reports as pressed during this tick
    player,               \* movePlayer: index of the query iteration
    key,                  \* movePlayer: the key whose branch is running
    positionData,         \* movePlayer: value read through the pointer
    wire,                 \* the message the last step gave to connection.Write
    sends                 \* the keys whose branch has sent a message this tick

bootVars == <<phase, argPlayerId, message, consumed, establishConnection, playerId>>
inVars == <<pcIn, updatePosition, playerConnected, entry, pending, inResult>>
outVars == <<pcOut, pressed, player, key, positionData, wire, sends>>
vars == <<phase, argPlayerId, message, consumed, establishConnection, playerId, world, pcIn,
          updatePosition, playerConnected, entry, pending, inResult, pcOut,
          pressed, player, key, positionData, wire, sends>>

Init ==
    /\ phase = "dial"
    /\ argPlayerId \in PlayerIds
    /\ message = ZeroMessage
    /\ consumed = 0
    /\ establishConnection = ZeroEstablishConnection
    /\ playerId = 0
    /\ world = <<>>
    /\ pcIn = "off"
    /\ updatePosition = ZeroPlayerPosition
    /\ playerConnected = ZeroPlayerPosition
    /\ entry = 0
    /\ pending = {}
    /\ inResult = "none"
    /\ pcOut = "idle"
    /\ pressed = {}
    /\ player = 0
    /\ key = 0
    /\ positionData = ZeroPosition
    /\ wire = ZeroUpdateMessage
    /\ sends = <<>>

\* ---------------------------------------------------------- createPlayer
\* world.Create: a new entity whose components hold their zero values.
WorldCreate(w) == Append(w, Entity(0, ZeroPosition))

SetPlayerId(w, i, id) == [w EXCEPT ![i].Id = id]

\* The copy of a word made into every entity that carries the id of entity
\* i, not only into the entry the scan returned.
SetPositionFieldOfAll(w, i, f, position) ==
    [j \in 1..Len(w) |->
        IF w[j].Id = w[i].Id
        THEN [w[j] EXCEPT !.Position = [@ EXCEPT ![f] = position[f]]]
        ELSE w[j]]

\* The copy of a word guarded by an ordering check: a smaller value is
\* taken for stale and not written.
SetPositionFieldUnlessStale(w, i, f, position) ==
    IF position[f] < w[i].Position[f]
    THEN w
    ELSE [w EXCEPT ![i].Position = [@ EXCEPT ![f] = position[f]]]

SetPositionField(w, i, f, position) ==
    [w EXCEPT ![i].Position = [@ EXCEPT ![f] = position[f]]]

SetPosition(w, i, position) == [w EXCEPT ![i].Position = position]

\* createPlayer without lines 92-96.
createPlayerNoPosition(w, id, position) == SetPlayerId(WorldCreate(w), Len(w) + 1, id)

\* createPlayer run with no other goroutine alive (inside NewGameScene).
createPlayer(w, id, position) ==
    SetPosition(SetPlayerId(WorldCreate(w), Len(w) + 1, id), Len(w) + 1, position)

\* ------------------------------------------------------------ NewGameScene
DialFails ==
    /\ phase = "dial"
    /\ phase' = "fatal"
    /\ UNCHANGED <<argPlayerId, message, consumed, establishConnection, playerId, world, inVars,
                   outVars>>

DialSucceeds ==
    /\ phase = "dial"
    /\ phase' = "receive"
    /\ UNCHANGED <<argPlayerId, message, consumed, establishConnection, playerId, world, inVars,
                   outVars>>

FirstReceiveFails ==
    /\ phase = "receive"
    /\ phase' = "fatal"
    /\ UNCHANGED <<argPlayerId, message, consumed, establishConnection, playerId, world, inVars,
                   outVars>>

FirstEnvelopes ==
    [MessageType : {"EstablishConnection"}, Payload : EstablishPayloads \cup {GarbagePayload}]
    \cup [MessageType : MessageTypes \ {"EstablishConnection"},
          Payload : PlayerPayloads \cup {GarbagePayload}]

FirstReceive ==
    /\ phase = "receive"
    /\ \E m \in FirstEnvelopes : message' = m
    /\ consumed' = consumed + 1
    /\ phase' = "unmarshal"
    /\ UNCHANGED <<argPlayerId, establishConnection, playerId, world, inVars, outVars>>

\* Lines 39-42 with the error of msgpack.Unmarshal dropped.
HandshakeIgnoresError(m) == TRUE

\* Lines 39-42: the payload is decoded as an EstablishConnection whatever
\* message.MessageType says.
HandshakeDecodes(m) == ~UnmarshalEstablishConnection(m.Payload).err

UnmarshalHandshake ==
    /\ phase = "unmarshal"
    /\ IF HandshakeDecodes(message)
       THEN /\ establishConnection' = UnmarshalEstablishConnection(message.Payload).value
            /\ phase' = "createLocal"
       ELSE /\ phase' = "fatal"
            /\ UNCHANGED establishConnection
    /\ UNCHANGED <<argPlayerId, message, consumed, playerId, world, inVars, outVars>>

\* Lines 44-48 taking the id from the parameter of NewGameScene.
AssignedFromArgument(argument, handshake) == argument

\* Line 46: the id the scene keeps.
AssignedPlayerId(argument, handshake) == handshake.PlayerId

\* Lines 44-55: the scene is built and the local player created.
CreateLocalPlayer ==
    /\ phase = "createLocal"
    /\ playerId' = AssignedPlayerId(argPlayerId, establishConnection)
    /\ world' = createPlayer(world, establishConnection.PlayerId,
                             establishConnection.Position)
    /\ phase' = "createEnemies"
    /\ UNCHANGED <<argPlayerId, message, consumed, establishConnection, inVars, outVars>>

\* The range loop of lines 57-59; the enemies created so far are the
\* entities after the local one.
EnemiesCreated == Len(world) - 1

CreateEnemy ==
    /\ phase = "createEnemies"
    /\ EnemiesCreated < Len(establishConnection.EnemyData)
    /\ LET enemyData == establishConnection.EnemyData[EnemiesCreated + 1]
       IN world' = createPlayer(world, enemyData.PlayerId, enemyData.Position)
    /\ UNCHANGED <<bootVars, inVars, outVars>>

\* Line 61 moved above the range loop.
LoopStartsEarly == phase = "createEnemies"

\* Line 61, reached when the range loop is over.
LoopMayStart == phase = "createEnemies" /\ EnemiesCreated >= Len(establishConnection.EnemyData)

StartReceiveLoop ==
    /\ LoopMayStart
    /\ pcIn' = "receive"
    /\ phase' = "return"
    /\ UNCHANGED <<argPlayerId, message, consumed, establishConnection, playerId, world,
                   updatePosition, playerConnected, entry, pending, inResult, outVars>>

\* Line 63: the locals die and the host gets the scene.
ReturnScene ==
    /\ phase = "return"
    /\ phase' = "running"
    /\ argPlayerId' = 0
    /\ message' = ZeroMessage
    /\ establishConnection' = ZeroEstablishConnection
    /\ UNCHANGED <<consumed, playerId, world, inVars, outVars>>

\* ------------------------------------------------- receiveServerUpdates
InboundEnvelopes ==
    [MessageType : MessageTypes, Payload : PlayerPayloads \cup {GarbagePayload}]

\* The scan of findCorrespondingPlayer: the first entity whose Player
\* component carries the id, 0 for nil.
MatchingEntities(w, id) == {i \in 1..Len(w) : w[i].Id = id}

\* The scan with a self-echo filter: the local player is never returned.
findCorrespondingRemotePlayer(w, id) ==
    IF id = playerId \/ MatchingEntities(w, id) = {}
    THEN 0
    ELSE CHOOSE i \in MatchingEntities(w, id) : \A j \in MatchingEntities(w, id) : i <= j

findCorrespondingPlayer(w, id) ==
    IF MatchingEntities(w, id) = {}
    THEN 0
    ELSE CHOOSE i \in MatchingEntities(w, id) : \A j \in MatchingEntities(w, id) : i <= j

\* `return` in place of the `continue` of line 172.
ReceiveFailsReturns ==
    /\ pcIn = "receive"
    /\ pcIn' = "off"
    /\ inResult' = "receive_error"
    /\ UNCHANGED <<bootVars, world, updatePosition, playerConnected, entry, pending, outVars>>

\* Lines 171-173: rpc.ReceiveMessage fails and the loop continues.
ReceiveFails ==
    /\ pcIn = "receive"
    /\ inResult' = "receive_error"
    /\ UNCHANGED <<bootVars, world, pcIn, updatePosition, playerConnected, entry,
                   pending, outVars>>

\* `return` in place of the `continue` of lines 180 and 192.
ExitOnDecodeError == "off"

\* Where the loop goes with a payload that fails to decode (lines 179-181
\* and 191-193).
AfterDecodeError == "receive"

\* The switch of line 175 with a third case, EstablishConnection, that
\* falls into the PlayerConnected arm.
SwitchArmTakesEstablish(messageType) ==
    CASE messageType = "UpdatePosition" -> "UpdatePosition"
      [] messageType \in {"PlayerConnected", "EstablishConnection"} -> "PlayerConnected"
      [] OTHER -> "none"

\* The arm of the switch of line 175 taken for a message type.
SwitchArm(messageType) ==
    CASE messageType = "UpdatePosition" -> "UpdatePosition"
      [] messageType = "PlayerConnected" -> "PlayerConnected"
      [] OTHER -> "none"

\* Lines 183-186 creating the player the scan did not find.
OnUnknownPlayerCreates(w, update) == createPlayer(w, update.PlayerId, update.Position)

\* Lines 183-186 with an else branch that removes the newest entity.
OnUnknownPlayerRemoves(w, update) == SubSeq(w, 1, Len(w) - 1)

\* What lines 183-186 do to the world when the scan found nothing.
OnUnknownPlayer(w, update) == w

\* Lines 171-195 up to the first write to the world: receive, switch on the
\* message type, decode the payload, and then either scan for the player
\* (the scan reads Ids only, which no other goroutine writes) or call
\* world.Create (line 80).
Receive(m) ==
    /\ pcIn = "receive"
    /\ LET decoded == UnmarshalPlayerPosition(m.Payload)
           found == findCorrespondingPlayer(world, decoded.value.PlayerId)
       IN CASE SwitchArm(m.MessageType) = "UpdatePosition" /\ ~decoded.err /\ found # 0 ->
                 /\ updatePosition' = decoded.value
                 /\ entry' = found
                 /\ pending' = Fields
                 /\ pcIn' = "setValue"
                 /\ inResult' = "none"
                 /\ UNCHANGED <<world, playerConnected>>
            [] SwitchArm(m.MessageType) = "UpdatePosition" /\ ~decoded.err /\ found = 0 ->
                 /\ world' = OnUnknownPlayer(world, decoded.value)
                 /\ inResult' = "dropped"
                 /\ UNCHANGED <<pcIn, updatePosition, playerConnected, entry, pending>>
            [] SwitchArm(m.MessageType) = "PlayerConnected" /\ ~decoded.err ->
                 /\ Len(world) < MaxEntities
                 /\ playerConnected' = decoded.value
                 /\ world' = WorldCreate(world)
                 /\ entry' = Len(world) + 1
                 /\ pcIn' = "setPlayer"
                 /\ inResult' = "none"
                 /\ UNCHANGED <<updatePosition, pending>>
            [] SwitchArm(m.MessageType) # "none" /\ decoded.err ->
                 /\ inResult' = "decode_error"
                 /\ pcIn' = AfterDecodeError
                 /\ UNCHANGED <<world, updatePosition, playerConnected, entry, pending>>
            [] OTHER ->
                 /\ inResult' = "ignored"
                 /\ UNCHANGED <<world, pcIn, updatePosition, playerConnected, entry, pending>>
    /\ UNCHANGED <<bootVars, outVars>>

ReceiveMessage == \E m \in InboundEnvelopes : Receive(m)

\* Line 185: component.Position.SetValue copies the struct into the entry,
\* one word per step.
SetValue ==
    /\ pcIn = "setValue"
    /\ \E f \in pending :
         /\ world' = SetPositionField(world, entry, f, updatePosition.Position)
         /\ pending' = pending \ {f}
         /\ IF pending = {f}
            THEN /\ inResult' = "applied"
                 /\ pcIn' = "receive"
                 /\ entry' = 0
                 /\ updatePosition' = ZeroPlayerPosition
            ELSE UNCHANGED <<pcIn, entry, updatePosition, inResult>>
    /\ UNCHANGED <<bootVars, playerConnected, outVars>>

\* Lines 83-90.
SetPlayer ==
    /\ pcIn = "setPlayer"
    /\ world' = SetPlayerId(world, entry, playerConnected.PlayerId)
    /\ pending' = Fields
    /\ pcIn' = "setPosition"
    /\ UNCHANGED <<bootVars, updatePosition, playerConnected, entry, inResult, outVars>>

\* Lines 92-96, one word per step.
SetCreatedPosition ==
    /\ pcIn = "setPosition"
    /\ \E f \in pending :
         /\ world' = SetPositionField(world, entry, f, playerConnected.Position)
         /\ pending' = pending \ {f}
         /\ IF pending = {f}
            THEN /\ inResult' = "created"
                 /\ pcIn' = "receive"
                 /\ entry' = 0
                 /\ playerConnected' = ZeroPlayerPosition
            ELSE UNCHANGED <<pcIn, entry, playerConnected, inResult>>
    /\ UNCHANGED <<bootVars, updatePosition, outVars>>

\* ----------------------------------------------- component.PositionData
\* Forward, RotateClockwise and RotateCounterClockwise: a fixed step along
\* the heading, a fixed angular step either way.  Headings are quarter
\* turns here.
Heading(angle) ==
    CASE angle % 4 = 0 -> [dx |-> 1, dy |-> 0]
      [] angle % 4 = 1 -> [dx |-> 0, dy |-> 1]
      [] angle % 4 = 2 -> [dx |-> -1, dy |-> 0]
      [] OTHER -> [dx |-> 0, dy |-> -1]

Forward(p) ==
    [p EXCEPT !.X = p.X + Heading(p.Angle).dx, !.Y = p.Y + Heading(p.Angle).dy]

RotateClockwise(p) == [p EXCEPT !.Angle = p.Angle + 1]

RotateCounterClockwise(p) == [p EXCEPT !.Angle = p.Angle - 1]

\* ------------------------------------------------------------ movePlayer
\* The keys in the order of the three ifs of lines 151-162.
Keys == <<"W", "A", "D">>

Transform(k, p) ==
    CASE Keys[k] = "W" -> Forward(p)
      [] Keys[k] = "A" -> RotateClockwise(p)
      [] OTHER -> RotateCounterClockwise(p)

\* The words of the PositionData a transform assigns.
Written(k) == IF Keys[k] = "W" THEN {"X", "Y"} ELSE {"Angle"}

\* The next pressed key after key k (0: none left).
NextKey(k) ==
    IF \E n \in (k + 1)..Len(Keys) : Keys[n] \in pressed
    THEN CHOOSE n \in (k + 1)..Len(Keys) :
             /\ Keys[n] \in pressed
             /\ \A o \in (k + 1)..Len(Keys) : Keys[o] \in pressed => n <= o
    ELSE 0

\* movePlayer without the `continue` of lines 146-148.
IsAnyPlayer(e) == TRUE

\* Line 146: the entities movePlayer acts on.
IsLocalPlayer(e) == e.Id = playerId

\* Update -> ecs.Update -> movePlayer; ebiten fixes the key state for the
\* tick.
Update ==
    /\ phase = "running"
    /\ pcOut = "idle"
    /\ \E ks \in SUBSET {"W", "A", "D"} : pressed' = ks
    /\ player' = 1
    /\ pcOut' = "iterate"
    /\ UNCHANGED <<bootVars, world, inVars, key, positionData, wire, sends>>

\* Lines 145-150: one step of the query iteration; for the local player it
\* goes on to the first pressed key, whose transform reads the PositionData.
Iterate ==
    /\ pcOut = "iterate"
    /\ IF player > Len(world)
       THEN /\ pcOut' = "done"
            /\ UNCHANGED <<player, key, positionData>>
       ELSE IF IsLocalPlayer(world[player]) /\ NextKey(0) # 0
            THEN /\ Transform(NextKey(0), world[player].Position) \in PositionData
                 /\ key' = NextKey(0)
                 /\ positionData' = world[player].Position
                 /\ pcOut' = "store"
                 /\ UNCHANGED player
            ELSE /\ player' = player + 1
                 /\ UNCHANGED <<pcOut, key, positionData>>
    /\ wire' = ZeroUpdateMessage
    /\ UNCHANGED <<bootVars, world, inVars, pressed, sends>>

\* The transform of a later key reads the PositionData ...
Load ==
    /\ pcOut = "load"
    /\ Transform(key, world[player].Position) \in PositionData
    /\ positionData' = world[player].Position
    /\ pcOut' = "store"
    /\ wire' = ZeroUpdateMessage
    /\ UNCHANGED <<bootVars, world, inVars, pressed, player, key, sends>>

\* ... and assign the words they change.
Store ==
    /\ pcOut = "store"
    /\ world' = [world EXCEPT ![player].Position =
                    [f \in Fields |-> IF f \in Written(key)
                                      THEN Transform(key, positionData)[f]
                                      ELSE @[f]]]
    /\ pcOut' = "send"
    /\ UNCHANGED <<bootVars, inVars, pressed, player, key, positionData, wire, sends>>

\* updatePosition(positionData): the message takes *positionData as it is
\* now.
Send ==
    /\ pcOut = "send"
    /\ wire' = UpdateMessage(playerId, world[player].Position)
    /\ sends' = Append(sends, Keys[key])
    /\ positionData' = ZeroPosition
    /\ IF NextKey(key) # 0
       THEN /\ key' = NextKey(key)
            /\ pcOut' = "load"
            /\ UNCHANGED player
       ELSE /\ key' = 0
            /\ player' = player + 1
            /\ pcOut' = "iterate"
    /\ UNCHANGED <<bootVars, world, inVars, pressed>>

UpdateReturns ==
    /\ pcOut = "done"
    /\ pcOut' = "idle"
    /\ pressed' = {}
    /\ player' = 0
    /\ sends' = <<>>
    /\ UNCHANGED <<bootVars, world, inVars, key, positionData, wire>>

\* ------------------------------------------------------- drawEnvironment
Draw ==
    /\ phase = "running"
    /\ pcOut = "idle"
    /\ pcOut' = "draw"
    /\ UNCHANGED <<bootVars, world, inVars, pressed, player, key, positionData, wire, sends>>

DrawReturns ==
    /\ pcOut = "draw"
    /\ pcOut' = "idle"
    /\ UNCHANGED <<bootVars, world, inVars, pressed, player, key, positionData, wire, sends>>

\* --------------------------------------------------------- specification
Next ==
    \/ DialFails
    \/ DialSucceeds
    \/ FirstReceiveFails
    \/ FirstReceive
    \/ UnmarshalHandshake
    \/ CreateLocalPlayer
    \/ CreateEnemy
    \/ StartReceiveLoop
    \/ ReturnScene
    \/ ReceiveFails
    \/ ReceiveMessage
    \/ SetValue
    \/ SetPlayer
    \/ SetCreatedPosition
    \/ Update
    \/ Iterate
    \/ Load
    \/ Store
    \/ Send
    \/ UpdateReturns
    \/ Draw
    \/ DrawReturns

Spec == Init /\ [][Next]_vars

\* The goroutine of line 61 is scheduled: a write it has started on the
\* world is eventually made.  Nothing is assumed of the connection (a
\* receive may block for ever) nor of the host's ticks.
FairSpec ==
    Spec /\ WF_vars(SetValue) /\ WF_vars(SetPlayer) /\ WF_vars(SetCreatedPosition)

\* ------------------------------------------------------------ properties
\* The steps of the receive goroutine: the host's variables and the phase
\* of NewGameScene stay as they are.
InboundStep == phase' = phase /\ UNCHANGED outVars

\* The goroutine is between two writes of a createPlayer, or has written
\* some words of a SetValue and not the others.
InboundInAccess ==
    \/ pcIn \in {"setPlayer", "setPosition"}
    \/ pcIn = "setValue" /\ pending # Fields

\* The host is inside a branch of movePlayer, between the accesses to the
\* PositionData of the entity it iterates on, or inside drawEnvironment.
HostInAccess == pcOut \in {"load", "store", "send", "draw"}

\* C1: no two entities of the world carry the same PlayerId.
AtMostOneEntityPerPlayerId ==
    \A i, j \in 1..Len(world) : i # j => world[i].Id # world[j].Id

\* The world the handshake in establishConnection describes: the local
\* player, then the enemies in the order received.
HandshakeWorld ==
    <<Entity(establishConnection.PlayerId, establishConnection.Position)>>
    \o [i \in 1..Len(establishConnection.EnemyData) |->
          Entity(establishConnection.EnemyData[i].PlayerId,
                 establishConnection.EnemyData[i].Position)]

\* NewGameScene has left the range loop of lines 57-59 and not yet run
\* line 61.
BootstrapCreated ==
    phase = "createEnemies" /\ Len(world) > Len(establishConnection.EnemyData)

\* C2: when the creation of bootstrap is over, the world is exactly the
\* local player with the assigned id and its position followed by one
\* entity per roster pair with that pair's id and position: N+1 entities.
BootstrapYieldsRoster ==
    BootstrapCreated =>
        /\ Len(world) = Len(establishConnection.EnemyData) + 1
        /\ world = HandshakeWorld
        /\ playerId = establishConnection.PlayerId

BootstrapYieldsRosterWitness ==
    /\ BootstrapCreated
    /\ Len(establishConnection.EnemyData) = 1
    /\ Len(world) = 2
    /\ world[2].Position # world[1].Position

\* C3: the receive goroutine is never in the middle of a write to the
\* world while the host is in the middle of movePlayer's iteration or of
\* the render read.
TableAccessesExclusive == ~(InboundInAccess /\ HostInAccess)

\* C4: the step that ends the processing of an UpdatePosition whose
\* PlayerId matches exactly one entity leaves that entity with exactly the
\* payload's PositionData, and every step of that processing leaves the
\* other entities, the ids, the entity count and the local PlayerId alone.
UpdateOverwritesExactly ==
    [][(pcIn = "setValue" /\ InboundStep
         /\ Cardinality(MatchingEntities(world, updatePosition.PlayerId)) = 1)
       => /\ Len(world') = Len(world)
          /\ playerId' = playerId
          /\ \A i \in 1..Len(world) :
                /\ world'[i].Id = world[i].Id
                /\ i # entry => world'[i] = world[i]
          /\ pcIn' = "receive" => world'[entry].Position = updatePosition.Position]_vars

\* C5: the step that processes an UpdatePosition whose PlayerId matches no
\* entity leaves the world as it is: same entities, same positions.
UnknownUpdateLeavesWorld ==
    [][(pcIn = "receive" /\ InboundStep /\ inResult' = "dropped")
       => world' = world /\ pcIn' = "receive" /\ playerId' = playerId]_vars

UnknownUpdateLeavesWorldWitness ==
    /\ inResult = "dropped"
    /\ Len(world) >= 1
    /\ \E id \in PlayerIds : MatchingEntities(world, id) = {}

\* C6: processing a PlayerConnected adds exactly one entity, and when the
\* processing ends that entity carries the payload's PlayerId and
\* PositionData.
PlayerConnectedAddsEntity ==
    [][(InboundStep /\ pcIn' # pcIn)
       => /\ pcIn' = "setPlayer" => Len(world') = Len(world) + 1
          /\ pcIn = "setPosition" =>
                /\ Len(world') = Len(world)
                /\ world'[entry] =
                       Entity(playerConnected.PlayerId, playerConnected.Position)]_vars

\* C7: until NewGameScene has created the local entity and every roster
\* entity the receive goroutine does not exist and the host runs no tick;
\* NewGameScene takes exactly one envelope from the connection.
BootstrapFirst ==
    /\ phase \notin {"return", "running"} => pcIn = "off" /\ inResult = "none"
    /\ phase # "running" =>
          pcOut = "idle" /\ sends = <<>> /\ wire = ZeroUpdateMessage
    /\ phase = "return" =>
          /\ Len(world) >= Len(HandshakeWorld)
          /\ \A i \in 1..Len(HandshakeWorld) : world[i].Id = HandshakeWorld[i].Id
          /\ playerId = establishConnection.PlayerId
    /\ phase \in {"return", "running"} => consumed = 1 /\ Len(world) >= 1
    /\ consumed <= 1

BootstrapFirstWitness ==
    /\ phase = "return"
    /\ pcIn = "receive"
    /\ Len(establishConnection.EnemyData) = 1
    /\ Len(world) = 2

\* C8: a failed dial, a failed first receive or a first payload that does
\* not decode ends NewGameScene in the fatal state, where nothing runs:
\* no entity, no receive goroutine, no tick, nothing sent.
HandshakeFailureIsFatal ==
    /\ phase = "fatal" =>
          /\ world = <<>>
          /\ playerId = 0
          /\ pcIn = "off"
          /\ pcOut = "idle"
          /\ sends = <<>>
          /\ wire = ZeroUpdateMessage
          /\ ~ENABLED Next
    /\ (message.MessageType # "" /\ ~message.Payload.valid) =>
          phase \in {"unmarshal", "fatal"} /\ world = <<>> /\ pcIn = "off"

HandshakeFailureIsFatalWitness ==
    /\ phase = "fatal"
    /\ message.MessageType = "EstablishConnection"
    /\ ~message.Payload.valid

\* C9: a first envelope whose tag is not EstablishConnection seeds
\* nothing: no entity, no local identity, no receive goroutine.
HandshakeRequiresEstablishConnection ==
    message.MessageType \notin {"", "EstablishConnection"} =>
        world = <<>> /\ playerId = 0 /\ pcIn = "off"

\* The envelopes that are well formed and that the loop applies.
AppliedEnvelopes ==
    {m \in InboundEnvelopes :
        /\ m.Payload.valid
        /\ \/ m.MessageType = "PlayerConnected" /\ Len(world) < MaxEntities
           \/ /\ m.MessageType = "UpdatePosition"
              /\ MatchingEntities(world, m.Payload.PlayerId) # {}}

\* C10: a receive error or a decode failure in the loop leaves the world
\* and the local PlayerId as they are and leaves the loop at its receive,
\* where the next well-formed message is taken and processed.
InboundErrorsAreTransient ==
    /\ [](inResult \in {"receive_error", "decode_error"} =>
             /\ pcIn = "receive"
             /\ \A m \in AppliedEnvelopes : ENABLED Receive(m))
    /\ [][(pcIn = "receive" /\ InboundStep
            /\ inResult' \in {"receive_error", "decode_error"})
          => world' = world /\ playerId' = playerId /\ pcIn' = "receive"]_vars

InboundErrorsAreTransientWitness ==
    /\ inResult = "decode_error"
    /\ pcIn = "receive"
    /\ AppliedEnvelopes # {}

\* The envelopes whose tag has no case in the switch of line 175.
UnrecognizedEnvelopes ==
    {m \in InboundEnvelopes : m.MessageType \notin {"UpdatePosition", "PlayerConnected"}}

\* C11: an inbound envelope tagged neither UpdatePosition nor
\* PlayerConnected (a late EstablishConnection included) is taken whenever
\* the loop is at its receive, and taking it changes no entity, no id, no
\* position and not the local PlayerId, enters no error state and leaves
\* the loop at its receive.
UnrecognizedTagIgnored ==
    /\ [](pcIn = "receive" => \A m \in UnrecognizedEnvelopes : ENABLED Receive(m))
    /\ [][\A m \in UnrecognizedEnvelopes :
            Receive(m) => /\ world' = world
                          /\ playerId' = playerId
                          /\ phase' = phase
                          /\ pcIn' = "receive"
                          /\ inResult' = "ignored"]_vars

UnrecognizedTagIgnoredWitness ==
    /\ inResult = "ignored"
    /\ pcIn = "receive"
    /\ phase = "running"
    /\ Len(world) = 2

\* The keys pressed during the tick, in the order of the ifs of lines
\* 151-162.
PressedInOrder == SelectSeq(Keys, LAMBDA k : k \in pressed)

\* C12: when an invocation of movePlayer is over it has sent one message
\* per pressed key among W, A, D, in that order, and none when no key is
\* pressed.
OneMessagePerActiveInput ==
    /\ pcOut = "done" => sends = PressedInOrder
    /\ pcOut \in {"iterate", "load", "store", "send"} => Len(sends) <= Len(PressedInOrder)

\* The steps of the host goroutine inside Update and Draw.
OutboundStep == outVars' # outVars

PlayerIdsImmutable ==
    /\ [](/\ phase \in {"createEnemies", "return"} =>
                /\ playerId = establishConnection.PlayerId
                /\ playerId = message.Payload.PlayerId
          /\ phase \in {"dial", "receive", "unmarshal", "createLocal", "fatal"} =>
                playerId = 0)
    /\ [][/\ phase # "createLocal" => playerId' = playerId
          /\ \A i \in 1..Len(world) :
               world'[i].Id # world[i].Id =>
                   /\ pcIn = "setPlayer"
                   /\ i = entry
                   /\ world[i].Id = 0
                   /\ ~OutboundStep]_vars

PlayerIdsImmutableWitness ==
    /\ phase = "return"
    /\ argPlayerId # establishConnection.PlayerId
    /\ playerId = establishConnection.PlayerId
    /\ inResult = "applied"
    /\ world[1].Id = playerId

\* C15: no step removes an entity: the entity count never decreases, and an
\* entity of the world stays in it, under the id it was created with, in
\* every later state.
EntitiesNeverRemoved ==
    [][/\ Len(world') >= Len(world)
       /\ \A i \in 1..Len(world) :
            /\ i <= Len(world')
            /\ world[i].Id # 0 => world'[i].Id = world[i].Id]_vars

EntitiesNeverRemovedWitness ==
    /\ Len(world) = 2
    /\ inResult = "dropped"
    /\ pcOut = "done"
    /\ sends # <<>>

\* Entity i carries a PlayerId that is not the local one and that no other
\* entity carries.
RemoteAlone(i) ==
    /\ world[i].Id \notin {0, playerId}
    /\ MatchingEntities(world, world[i].Id) = {i}

\* The well-formed UpdatePosition envelopes addressed to entity i.
UpdatesFor(i) ==
    {m \in InboundEnvelopes :
        /\ m.MessageType = "UpdatePosition"
        /\ m.Payload.valid
        /\ m.Payload.PlayerId = world[i].Id}

\* The position the receive loop is copying into the entry.
InFlightPosition ==
    IF pcIn = "setValue" THEN updatePosition.Position ELSE playerConnected.Position

SentMessageIsTransformed ==
    [][(pcOut = "send" /\ OutboundStep)
       => wire' = UpdateMessage(playerId, Transform(key, positionData))]_vars

\* The well-formed UpdatePosition envelopes that carry the local PlayerId.
EchoEnvelopes ==
    {m \in InboundEnvelopes :
        /\ m.MessageType = "UpdatePosition"
        /\ m.Payload.valid
        /\ m.Payload.PlayerId = playerId}

\* C18: an inbound UpdatePosition carrying the local PlayerId is applied
\* like any other: whenever the loop is at its receive each such envelope
\* is taken and its payload is about to be copied into an entity that
\* carries the local PlayerId.  (The interleaving in which the echo then
\* overwrites a transform of the running tick is the witness.)
EchoIsApplied ==
    (pcIn = "receive" /\ MatchingEntities(world, playerId) # {}) =>
        \A m \in EchoEnvelopes :
            ENABLED (/\ Receive(m)
                     /\ pcIn' = "setValue"
                     /\ entry' # 0
                     /\ world[entry'].Id = playerId
                     /\ pending' = Fields
                     /\ updatePosition'.Position = m.Payload.Position)

\* The tick has stored the transform of a key and not yet sent; since then
\* an echo has been copied whole over the local entity, which holds the
\* echoed payload and not the transformed value.
EchoIsAppliedWitness ==
    /\ pcOut = "send"
    /\ pcIn = "receive"
    /\ inResult = "applied"
    /\ Len(world) = 1
    /\ world[player].Id = playerId
    /\ world[player].Position \in SentPositions
    /\ \E f \in Written(key) :
          world[player].Position[f] # Transform(key, positionData)[f]

\* C19: one inbound UpdatePosition changes the PositionData of at most one
\* entity.  The entry it is applied to is the first entity of the scan that
\* carries the PlayerId, and no step of the copy changes any other entity,
\* the entities that share the PlayerId included.
UpdateChangesOnlyFirstMatch ==
    [][/\ (pcIn = "receive" /\ pcIn' = "setValue") =>
            /\ world' = world
            /\ entry' \in MatchingEntities(world, updatePosition'.PlayerId)
            /\ \A j \in MatchingEntities(world, updatePosition'.PlayerId) : entry' <= j
       /\ (pcIn = "setValue" /\ InboundStep) =>
            /\ Len(world') = Len(world)
            /\ \A j \in 1..Len(world) : j # entry => world'[j] = world[j]
            /\ pcIn' = "setValue" => entry' = entry]_vars

\* Before the host runs: a second entity was created under the local
\* PlayerId at the position of the first, then an update for that PlayerId
\* was applied; the first entity has moved and the second has not.
UpdateChangesOnlyFirstMatchWitness ==
    /\ phase = "return"
    /\ inResult = "applied"
    /\ Len(world) = 2
    /\ world[1].Id = world[2].Id
    /\ world[2].Position = establishConnection.Position
    /\ world[1].Position # establishConnection.Position

\* The writes the receive loop still has to make before it is back at its
\* receive.
InboundRemaining ==
    CASE pcIn = "setPlayer" -> Cardinality(Fields) + 1
      [] pcIn \in {"setValue", "setPosition"} -> Cardinality(pending)
      [] OTHER -> 0

\* The next step of the receive loop can be taken.
InboundCanStep ==
    CASE pcIn = "receive" ->
           /\ ENABLED ReceiveFails
           /\ \A m \in UnrecognizedEnvelopes \cup AppliedEnvelopes : ENABLED Receive(m)
      [] pcIn = "setValue" -> ENABLED SetValue
      [] pcIn = "setPlayer" -> ENABLED SetPlayer
      [] pcIn = "setPosition" -> ENABLED SetCreatedPosition
      [] OTHER -> FALSE

\* C20: once NewGameScene has started it the receive loop has no terminal
\* state: it is at its receive or dispatching one message, its next step
\* can always be taken, every step of a dispatch brings it closer to its
\* receive and the last one (like every error) puts it there, so that a
\* scheduled loop is always back at its receive in the end; and the loop
\* never writes to the connection: every message is written by a step of
\* the outbound tick.
InboundLoopNeverEnds ==
    /\ [](phase \in {"return", "running"} =>
            /\ pcIn \in {"receive", "setValue", "setPlayer", "setPosition"}
            /\ InboundCanStep
            /\ pcIn = "receive" <=> InboundRemaining = 0)
    /\ (pcIn \in {"setValue", "setPlayer", "setPosition"}) ~> (pcIn = "receive")
    /\ [][/\ (InboundStep /\ pcIn \in {"setValue", "setPlayer", "setPosition"}) =>
               /\ InboundRemaining' < InboundRemaining
               /\ InboundRemaining' = 0 => pcIn' = "receive"
          /\ (InboundStep /\ pcIn = "receive") =>
               \/ pcIn' = "receive"
               \/ InboundRemaining' > 0
          /\ (wire' # wire \/ sends' # sends) =>
               /\ OutboundStep
               /\ UNCHANGED inVars
               /\ pcOut \in {"iterate", "load", "send", "done"}
          /\ Len(sends') > Len(sends) =>
               /\ pcOut = "send"
               /\ wire' = UpdateMessage(playerId, world[player].Position)]_vars

InboundLoopNeverEndsWitness ==
    /\ phase = "running"
    /\ pcIn = "receive"
    /\ inResult = "decode_error"
    /\ pcOut = "iterate"
    /\ sends # <<>>
    /\ wire = UpdateMessage(playerId, world[1].Position)
    /\ Len(world) = 2

====
